---- MODULE Spec2Model ----
(***************************************************************************)
(* Dual-handle range selector of FrameMonkey (src/GUI/main.py):            *)
(* DualSlider (the widget holding the trim markers and the drag flags) and *)
(* the MainWindow slots that connect it to the QMediaPlayer.               *)
(*                                                                         *)
(* Units.  Marker and position fields are slider ticks (0..1000).          *)
(* Player durations and positions are milliseconds, as QMediaPlayer        *)
(* reports them.  DualSlider.duration is a float number of seconds         *)
(* (updateDuration passes duration / 1000); the variable `duration` holds  *)
(* that float multiplied by 1000, so that it stays an integer.             *)
(***************************************************************************)
EXTENDS Integers, FiniteSets, Sequences, TLC

\* ------------------------------------------------------------------ bounds
\* Event inputs.  NumPixels and NumPositions say how many entries of PixelSeq
\* (pointer x coordinates) and PositionSeq (positions the player reports,
\* milliseconds) the events draw from.
NumPixels == 4
NumPositions == 3

PixelSeq == <<2, 298, 150, -20, 100, 320, 290>>
PositionSeq == <<750, -500, 1600, 0, 1>>

Prefix(s, n) == {s[i] : i \in 1..(IF n < Len(s) THEN n ELSE Len(s))}

Pixels == Prefix(PixelSeq, NumPixels)
Positions == Prefix(PositionSeq, NumPositions)
\* slider.width() when a pointer event arrives
Widths == {300}
\* durations the player announces, milliseconds (0: no media)
Durations == {1500, 0, -1000}

\* --------------------------------------------------------------- constants
SliderMinimum == 0
SliderMaximum == 1000
hit_area == 15
MinGap == 10

\* ------------------------------------------------------------------- state
VARIABLES
  startPos,          \* DualSlider.startPos
  endPos,            \* DualSlider.endPos
  currentPos,        \* DualSlider.currentPos
  duration,          \* DualSlider.duration (seconds) * 1000
  isDraggingStart,   \* DualSlider.isDraggingStart
  isDraggingEnd,     \* DualSlider.isDraggingEnd
  sliderValue,       \* DualSlider.slider.value()
  currentTimeLabel,  \* text of the three QLabels, as <<hours, minutes, secs>>
  startTimeLabel,
  endTimeLabel,
  playerDuration,    \* QMediaPlayer.duration(), milliseconds
  playerPosition,    \* position last requested with QMediaPlayer.setPosition
  seeks,             \* number of QMediaPlayer.setPosition calls made by the last handler
  lastOp             \* the event handled last and its inputs

vars == <<startPos, endPos, currentPos, duration, isDraggingStart, isDraggingEnd,
          sliderValue, currentTimeLabel, startTimeLabel, endTimeLabel,
          playerDuration, playerPosition, seeks, lastOp>>

markers == <<startPos, endPos>>
flags == <<isDraggingStart, isDraggingEnd>>
labels == <<currentTimeLabel, startTimeLabel, endTimeLabel>>
player == <<playerDuration, playerPosition>>

\* ----------------------------------------------------------------- helpers
Min(a, b) == IF a < b THEN a ELSE b
Max(a, b) == IF a > b THEN a ELSE b
Abs(a) == IF a < 0 THEN -a ELSE a

\* Python int(a / b) for b > 0: true division, then truncation toward zero.
TruncDiv(a, b) == IF a >= 0 THEN a \div b ELSE -((-a) \div b)

\* A handle pixel rounded up instead of truncated.
MarkerPixelsCeil(p, width) == TruncDiv(p * width + 999, 1000)

\* int(self.startPos * width / 1000), int(self.endPos * width / 1000)
MarkerPixels(p, width) == TruncDiv(p * width, 1000)

\* max(0, min(1000, int((pos * 1000) / width)))
RelativePos(pos, width) == Max(0, Min(1000, TruncDiv(pos * 1000, width)))

\* abs(pos - startPixels) < self.hit_area
HitsMarker(pos, markerPixels) == Abs(pos - markerPixels) < hit_area

\* DualSlider.formatTime, the argument given as seconds * 10^6 (a tick count
\* times a duration in milliseconds); the result is <<hours, minutes, secs>>.
\* int(seconds / 3600) truncates toward zero, Python's % is the floored modulus.
FloorSeconds(micro) == micro \div 1000000
formatTime(micro) ==
  <<IF micro >= 0 THEN FloorSeconds(micro) \div 3600
                  ELSE -(FloorSeconds(-micro) \div 3600),
    (FloorSeconds(micro) % 3600) \div 60,
    FloorSeconds(micro) % 60>>

\* DualSlider.updateTimeLabels: the labels after the call, for the given fields.
LabelsAfterUpdate(cur, start, end, dur) ==
  IF dur > 0
    THEN <<formatTime(cur * dur), formatTime(start * dur), formatTime(end * dur)>>
    ELSE labels

\* setText on the three labels.
SetLabels(texts) ==
  /\ currentTimeLabel' = texts[1]
  /\ startTimeLabel' = texts[2]
  /\ endTimeLabel' = texts[3]

\* QSlider.setValue bounds the value to [minimum, maximum].
SliderBound(v) == Max(SliderMinimum, Min(SliderMaximum, v))

\* The drag state the two flags encode; "Both" is no state of the selector.
dragState ==
  IF isDraggingStart /\ isDraggingEnd THEN "Both"
  ELSE IF isDraggingStart THEN "DraggingStart"
  ELSE IF isDraggingEnd THEN "DraggingEnd"
  ELSE "Idle"

Op(name, x, w) == [op |-> name, x |-> x, w |-> w]

\* -------------------------------------------------------------------- Init
Init ==
  /\ startPos = 0
  /\ endPos = 1000
  /\ currentPos = 0
  /\ duration = 0
  /\ isDraggingStart = FALSE
  /\ isDraggingEnd = FALSE
  /\ sliderValue = 0
  /\ currentTimeLabel = <<0, 0, 0>>
  /\ startTimeLabel = <<0, 0, 0>>
  /\ endTimeLabel = <<0, 0, 0>>
  /\ playerDuration = 0
  /\ playerPosition = 0
  /\ seeks = 0
  /\ lastOp = Op("init", 0, 0)

\* ----------------------------------------------------------------- slider
\* QSlider.setValue(v) emits valueChanged when the bounded value differs from
\* the current one and the signals are not blocked.
ValueChangedEmitted(old, v, blocked) == ~blocked /\ SliderBound(v) # old

\* updatePosition without the blockSignals bracket.
UpdatePositionSignalsOpen == FALSE

\* MainWindow.updatePosition brackets its setValue with blockSignals(True/False).
UpdatePositionBlocksSignals == TRUE

\* MainWindow.handleSliderValueChanged: the position sent to the player.
SeekPosition(value, playerDur) == TruncDiv(value * playerDur, 1000)

\* self.slider.setValue(v) from the click branch of eventFilter, with the two
\* slots connected to valueChanged run in connection order:
\* DualSlider.handleSliderValueChanged, then MainWindow.handleSliderValueChanged.
ClickSetValue(v) ==
  IF ValueChangedEmitted(sliderValue, v, FALSE)
    THEN /\ sliderValue' = SliderBound(v)
         /\ currentPos' = SliderBound(v)
         /\ SetLabels(LabelsAfterUpdate(SliderBound(v), startPos, endPos, duration))
         /\ IF playerDuration > 0
              THEN /\ playerPosition' = SeekPosition(SliderBound(v), playerDuration)
                   /\ seeks' = 1
              ELSE /\ playerPosition' = playerPosition
                   /\ seeks' = 0
    ELSE /\ seeks' = 0
         /\ UNCHANGED <<sliderValue, currentPos, labels, playerPosition>>

\* ------------------------------------------------------------ eventFilter
\* MouseButtonPress with the left button at pixel pos, slider width `width`.
MousePress(pos, width) ==
  /\ lastOp' = Op("press", pos, width)
  /\ IF HitsMarker(pos, MarkerPixels(startPos, width))
       THEN /\ isDraggingStart' = TRUE
            /\ seeks' = 0
            /\ UNCHANGED <<markers, currentPos, duration, isDraggingEnd, sliderValue,
                           labels, player>>
     ELSE IF HitsMarker(pos, MarkerPixels(endPos, width))
       THEN /\ isDraggingEnd' = TRUE
            /\ seeks' = 0
            /\ UNCHANGED <<markers, currentPos, duration, isDraggingStart, sliderValue,
                           labels, player>>
     ELSE /\ ClickSetValue(RelativePos(pos, width))
          /\ UNCHANGED <<markers, duration, flags, playerDuration>>

\* A start drag that forgets the gap against the end marker.
DragStartPosNoGap(end, relativePos) == relativePos

\* self.startPos = min(self.endPos - 10, relativePos)
DragStartPos(end, relativePos) == Min(end - MinGap, relativePos)

\* An end drag that may touch the start marker (gap off by MinGap).
DragEndPosNoGap(start, relativePos) == Max(start, relativePos)

\* self.endPos = max(self.startPos + 10, relativePos)
DragEndPos(start, relativePos) == Max(start + MinGap, relativePos)

\* if self.isDraggingStart or self.isDraggingEnd
DragActive(draggingStart, draggingEnd) == draggingStart \/ draggingEnd

\* MouseMove at pixel pos.  With no drag flag set the event is passed on to the
\* QSlider, which ignores it (no press reached it: every press is filtered).
MouseMove(pos, width) ==
  /\ lastOp' = Op("move", pos, width)
  /\ seeks' = 0
  /\ IF DragActive(isDraggingStart, isDraggingEnd)
       THEN /\ IF isDraggingStart
                 THEN /\ startPos' = DragStartPos(endPos, RelativePos(pos, width))
                      /\ endPos' = endPos
                 ELSE /\ endPos' = DragEndPos(startPos, RelativePos(pos, width))
                      /\ startPos' = startPos
            /\ SetLabels(LabelsAfterUpdate(currentPos, startPos', endPos', duration))
       ELSE UNCHANGED <<markers, labels>>
  /\ UNCHANGED <<currentPos, duration, flags, sliderValue, player>>

\* A release that clears the start flag only.
ReleasedFlagsStartOnly == <<FALSE, isDraggingEnd>>

\* The drag flags after MouseButtonRelease.
ReleasedFlags == <<FALSE, FALSE>>

MouseRelease ==
  /\ lastOp' = Op("release", 0, 0)
  /\ seeks' = 0
  /\ isDraggingStart' = ReleasedFlags[1]
  /\ isDraggingEnd' = ReleasedFlags[2]
  /\ UNCHANGED <<markers, currentPos, duration, sliderValue, labels, player>>

\* ------------------------------------------------------------- MainWindow
\* sliderValue = int((position * 1000) / self.player.duration())
PositionTicks(position, playerDur) == TruncDiv(position * 1000, playerDur)

\* MainWindow.updatePosition(position), the positionChanged slot.
updatePosition(position) ==
  /\ lastOp' = Op("updatePosition", position, 0)
  /\ IF playerDuration > 0
       THEN /\ IF ValueChangedEmitted(sliderValue, PositionTicks(position, playerDuration),
                                      UpdatePositionBlocksSignals)
                 THEN \* the slots of valueChanged run, then updatePosition goes on
                      /\ playerPosition' =
                           SeekPosition(SliderBound(PositionTicks(position, playerDuration)),
                                        playerDuration)
                      /\ seeks' = 1
                 ELSE /\ playerPosition' = playerPosition
                      /\ seeks' = 0
            /\ sliderValue' = SliderBound(PositionTicks(position, playerDuration))
            /\ currentPos' = PositionTicks(position, playerDuration)
            /\ SetLabels(LabelsAfterUpdate(currentPos', startPos, endPos, duration))
       ELSE /\ seeks' = 0
            /\ UNCHANGED <<sliderValue, currentPos, labels, playerPosition>>
  /\ UNCHANGED <<markers, duration, flags, playerDuration>>

\* A setDuration that leaves the end marker where it is.
EndPosKept(end) == end

\* DualSlider.setDuration: the markers after the call.
StartPosAfterSetDuration(start) == start
EndPosAfterSetDuration(end) == SliderMaximum

\* MainWindow.updateDuration(d), the durationChanged slot: the player's duration
\* is d milliseconds and DualSlider.setDuration(d / 1000) runs.
updateDuration(d) ==
  /\ lastOp' = Op("updateDuration", d, 0)
  /\ seeks' = 0
  /\ playerDuration' = d
  /\ duration' = d
  /\ startPos' = StartPosAfterSetDuration(startPos)
  /\ endPos' = EndPosAfterSetDuration(endPos)
  /\ SetLabels(LabelsAfterUpdate(currentPos, startPos', endPos', d))
  /\ UNCHANGED <<currentPos, flags, sliderValue, playerPosition>>

\* The player reports the position it was last asked to seek to, or another one.
ReportedPositions == Positions \cup {playerPosition}

Next ==
  \/ \E pos \in Pixels, width \in Widths : MousePress(pos, width)
  \/ \E pos \in Pixels, width \in Widths : MouseMove(pos, width)
  \/ MouseRelease
  \/ \E position \in ReportedPositions : updatePosition(position)
  \/ \E d \in Durations : updateDuration(d)

Spec == Init /\ [][Next]_vars

\* ---------------------------------------------------------------- accessors
\* getStartTime without the duration guard.
getStartTimeUnguarded == startPos * duration

\* DualSlider.getStartTime / getEndTime (read by MainWindow.getTrimTimes), the
\* returned seconds multiplied by 10^6 (ticks * milliseconds).
getStartTime == IF duration > 0 THEN startPos * duration ELSE 0
getEndTime == IF duration > 0 THEN endPos * duration ELSE 0

\* ------------------------------------------------------ handle round trip
\* The tick -> pixel -> tick mapping of eventFilter, exercised by pointer
\* events that arrive exactly at the pixel hit-testing computes for a handle.
\* One marker starts at any tick the gap allows, the other at its default.
RoundTripWidths == {1, 7, 300, 500, 1000, 1920}

RoundTripInit ==
  /\ \/ startPos \in 0..(SliderMaximum - MinGap) /\ endPos = SliderMaximum
     \/ startPos = 0 /\ endPos \in MinGap..SliderMaximum
  /\ currentPos = 0
  /\ duration = 0
  /\ isDraggingStart = FALSE
  /\ isDraggingEnd = FALSE
  /\ sliderValue = 0
  /\ currentTimeLabel = <<0, 0, 0>>
  /\ startTimeLabel = <<0, 0, 0>>
  /\ endTimeLabel = <<0, 0, 0>>
  /\ playerDuration = 0
  /\ playerPosition = 0
  /\ seeks = 0
  /\ lastOp = Op("init", 0, 0)

\* The pointer goes down on a handle's pixel and then reports moves at the
\* pixel of the handle it drags.
PressAtStartHandle == \E width \in RoundTripWidths :
  /\ dragState = "Idle"
  /\ MousePress(MarkerPixels(startPos, width), width)
PressAtEndHandle == \E width \in RoundTripWidths :
  /\ dragState = "Idle"
  /\ MousePress(MarkerPixels(endPos, width), width)
MoveAtStartHandle == \E width \in RoundTripWidths :
  /\ dragState = "DraggingStart"
  /\ MouseMove(MarkerPixels(startPos, width), width)
MoveAtEndHandle == \E width \in RoundTripWidths :
  /\ dragState = "DraggingEnd"
  /\ MouseMove(MarkerPixels(endPos, width), width)

RoundTripNext ==
  \/ PressAtStartHandle
  \/ PressAtEndHandle
  \/ MoveAtStartHandle
  \/ MoveAtEndHandle

RoundTripSpec == RoundTripInit /\ [][RoundTripNext]_vars

\* ================================================================== claims
\* Inputs of the pointer event handled last.
OpTick(o) == RelativePos(o.x, o.w)
OpHitsStart(o, start) == Abs(o.x - MarkerPixels(start, o.w)) < 15
OpHitsEnd(o, end) == Abs(o.x - MarkerPixels(end, o.w)) < 15

\* C1: after any sequence of pointer-down, pointer-move, pointer-up,
\* setDuration and setPosition operations the markers satisfy
\* 0 <= startPos, startPos + 10 <= endPos and endPos <= 1000.
C1_MarkersKeepGap ==
  /\ 0 <= startPos
  /\ startPos + 10 <= endPos
  /\ endPos <= 1000

\* A start drag was stopped at the gap boundary below an end marker that an
\* earlier end drag had moved.
C1_Witness ==
  /\ lastOp.op = "move"
  /\ isDraggingStart
  /\ endPos < 1000
  /\ startPos = endPos - 10
  /\ OpTick(lastOp) > startPos

\* C2: a pointer-down outside the hit radius of both handles sets currentPos
\* to the clicked tick, issues exactly one seek command to the player and
\* leaves the drag state Idle, in every reachable state.
C2_ClickSeeksOnce ==
  [][(/\ lastOp'.op = "press"
      /\ ~OpHitsStart(lastOp', startPos)
      /\ ~OpHitsEnd(lastOp', endPos))
     => (/\ currentPos' = OpTick(lastOp')
         /\ seeks' = 1
         /\ dragState' = "Idle")]_vars

\* C3: a playback position update never issues a seek command, leaves both
\* markers and the drag flags unchanged, and leaves currentPos unchanged too
\* when the duration is not > 0.
C3_PositionUpdateOnlyMovesPosition ==
  [][lastOp'.op = "updatePosition"
     => (/\ seeks' = 0
         /\ playerPosition' = playerPosition
         /\ startPos' = startPos
         /\ endPos' = endPos
         /\ isDraggingStart' = isDraggingStart
         /\ isDraggingEnd' = isDraggingEnd
         /\ (~(playerDuration > 0) => currentPos' = currentPos))]_vars

\* The player reported 750 ms of 1500 ms during a drag: the position indicator
\* is at tick 500 and no seek went out.
C3_Witness ==
  /\ lastOp.op = "updatePosition"
  /\ lastOp.x = 750
  /\ playerDuration = 1500
  /\ currentPos = 500
  /\ sliderValue = 500
  /\ seeks = 0
  /\ dragState = "DraggingStart"
  /\ startPos > 0

\* C4: after any sequence of operations 0 <= currentPos <= 1000, also after a
\* position update whose time is negative or beyond the duration.
C4_PositionInRange == 0 <= currentPos /\ currentPos <= 1000

\* C5: a pointer-move at tick t during a drag sets the dragged marker to t but
\* stops at the gap boundary: startPos = min(endPos - 10, t) in DraggingStart,
\* endPos = max(startPos + 10, t) in DraggingEnd; the other marker and
\* currentPos are unchanged.
C5_DragClampsAtGap ==
  [][lastOp'.op = "move"
     => (/\ dragState = "DraggingStart"
            => (/\ startPos' = Min(endPos - 10, OpTick(lastOp'))
                /\ endPos' = endPos
                /\ currentPos' = currentPos)
         /\ dragState = "DraggingEnd"
            => (/\ endPos' = Max(startPos + 10, OpTick(lastOp'))
                /\ startPos' = startPos
                /\ currentPos' = currentPos))]_vars

\* An end drag moved below the start marker and was stopped 10 ticks above it.
C5_Witness ==
  /\ lastOp.op = "move"
  /\ dragState = "DraggingEnd"
  /\ startPos > 0
  /\ endPos = startPos + 10
  /\ OpTick(lastOp) < startPos

\* C6: on pointer-down the start handle is tested first: a hit on the start
\* handle enters DraggingStart, otherwise a hit on the end handle enters
\* DraggingEnd; a hit changes neither marker nor currentPos and issues no seek.
C6_HitEntersDragState ==
  [][lastOp'.op = "press"
     => (/\ OpHitsStart(lastOp', startPos) => dragState' = "DraggingStart"
         /\ (~OpHitsStart(lastOp', startPos) /\ OpHitsEnd(lastOp', endPos))
            => dragState' = "DraggingEnd"
         /\ (OpHitsStart(lastOp', startPos) \/ OpHitsEnd(lastOp', endPos))
            => (/\ startPos' = startPos
                /\ endPos' = endPos
                /\ currentPos' = currentPos
                /\ seeks' = 0))]_vars

\* C7: the drag state is always exactly one of Idle, DraggingStart and
\* DraggingEnd (the two drag flags are never both set), and it changes only on
\* pointer-down and pointer-up.
C7_OneDragState ==
  /\ [](~(isDraggingStart /\ isDraggingEnd))
  /\ [][<<isDraggingStart, isDraggingEnd>>' # <<isDraggingStart, isDraggingEnd>>
        => lastOp'.op \in {"press", "release"}]_vars

\* C8: pointer-up moves the selector to Idle from every drag state, and from
\* then until the next pointer-down that hits a handle the selector stays Idle
\* and no pointer-move changes a marker.
C8_ReleaseEndsDrag ==
  [][/\ lastOp'.op = "release" => dragState' = "Idle"
     /\ (dragState = "Idle" /\ lastOp'.op = "move")
        => (startPos' = startPos /\ endPos' = endPos)
     /\ (dragState = "Idle" /\ dragState' # "Idle")
        => (/\ lastOp'.op = "press"
            /\ (OpHitsStart(lastOp', startPos) \/ OpHitsEnd(lastOp', endPos)))]_vars

\* A pointer-move arrived after the release that ended a drag of both markers.
C8_Witness ==
  /\ lastOp.op = "move"
  /\ dragState = "Idle"
  /\ startPos > 0
  /\ endPos < 1000
  /\ OpTick(lastOp) # startPos
  /\ OpTick(lastOp) # endPos

\* C9: setDuration, for any value and in any reachable state, sets endPos to
\* 1000 and leaves startPos at its prior value when that is <= 990, otherwise
\* sets startPos to 0.
C9_SetDurationResetsEnd ==
  [][lastOp'.op = "updateDuration"
     => (/\ endPos' = 1000
         /\ startPos' = IF startPos <= 990 THEN startPos ELSE 0)]_vars

\* A negative duration arrived in the middle of a start drag.
C9_Witness ==
  /\ lastOp.op = "updateDuration"
  /\ lastOp.x < 0
  /\ dragState = "DraggingStart"
  /\ startPos > 0
  /\ endPos = 1000

\* C10: whenever a new duration is set the markers are back at the full range,
\* startPos = 0 and endPos = 1000.
C10_NewDurationResetsMarkers ==
  lastOp.op = "updateDuration" => (startPos = 0 /\ endPos = 1000)

\* clamp(round(x / w * 1000), 0, 1000): the nearest tick (a tie goes up), w > 0.
RoundedTick(x, w) == Max(0, Min(1000, (2 * x * 1000 + w) \div (2 * w)))

\* C11: for every width w > 0 and every pixel x the tick used by click-seek
\* and by drag moves is clamp(round(x / w * 1000), 0, 1000), the nearest tick:
\* a click leaves the slider at that tick, a drag move uses it for the marker.
C11_TickIsRounded ==
  [][/\ (/\ lastOp'.op = "press"
         /\ ~OpHitsStart(lastOp', startPos)
         /\ ~OpHitsEnd(lastOp', endPos))
        => sliderValue' = RoundedTick(lastOp'.x, lastOp'.w)
     /\ (lastOp'.op = "move" /\ dragState = "DraggingStart")
        => startPos' = Min(endPos - 10, RoundedTick(lastOp'.x, lastOp'.w))
     /\ (lastOp'.op = "move" /\ dragState = "DraggingEnd")
        => endPos' = Max(startPos + 10, RoundedTick(lastOp'.x, lastOp'.w))]_vars

\* The pointer event handled last arrived at the pixel of the handle at tick t.
AtHandleOf(o, t) == o.op \in {"press", "move"} /\ o.x = MarkerPixels(t, o.w)

\* C12 as stated: for all ticks t in [0,1000] and all widths w > 0, mapping t
\* to its handle pixel and that pixel back to a tick returns a tick within 1
\* of t.
C12_RoundTripWithinOne ==
  [][/\ AtHandleOf(lastOp', startPos) => Abs(OpTick(lastOp') - startPos) <= 1
     /\ AtHandleOf(lastOp', endPos) => Abs(OpTick(lastOp') - endPos) <= 1]_vars

\* C12 as amended: the round trip returns a tick t2 that is never above t and
\* falls short of it by less than 1000 / w + 1 (so by at most 1 when w >= 1000).
RoundTripBound(t, t2, w) == t2 <= t /\ (t - t2 - 1) * w < 1000
C12_RoundTripBounded ==
  [][/\ AtHandleOf(lastOp', startPos)
        => RoundTripBound(startPos, OpTick(lastOp'), lastOp'.w)
     /\ AtHandleOf(lastOp', endPos)
        => RoundTripBound(endPos, OpTick(lastOp'), lastOp'.w)]_vars

\* The start handle was grabbed at its own pixel (296 of 300) and a move at
\* that same pixel took the marker from tick 989 to tick 986.
C12_Witness ==
  /\ lastOp = Op("move", 296, 300)
  /\ dragState = "DraggingStart"
  /\ startPos = 986
  /\ endPos = 1000

\* C13: getStartTime() is startPos / 1000 * duration and getEndTime() is
\* endPos / 1000 * duration when the duration is > 0; when the duration is 0 or
\* was set to a negative value both are 0, in every reachable state.
\* (Seconds are scaled by 10^6: a product of ticks and milliseconds.)
C13_AccessorsGuardDuration ==
  /\ duration > 0
     => (/\ getStartTime * 1000 = startPos * (duration * 1000)
         /\ getEndTime * 1000 = endPos * (duration * 1000))
  /\ ~(duration > 0) => (getStartTime = 0 /\ getEndTime = 0)

\* A negative duration was set after the start marker had been dragged away
\* from 0: both accessors give 0.
C13_Witness ==
  /\ lastOp.op = "updateDuration"
  /\ duration < 0
  /\ startPos > 0
  /\ getStartTime = 0
  /\ getEndTime = 0

\* C14: after any operation that changes a marker or the duration (a drag
\* move, setDuration) the start label shows formatTime(getStartTime()) and the
\* end label formatTime(getEndTime()), also when the duration goes from a
\* positive value to 0.
C14_LabelsFollowMarkers ==
  (\/ lastOp.op = "updateDuration"
   \/ (lastOp.op = "move" /\ (isDraggingStart \/ isDraggingEnd)))
  => (/\ startTimeLabel = formatTime(getStartTime)
      /\ endTimeLabel = formatTime(getEndTime))

\* C15: after a click-seek at tick t with a duration D > 0 the position sent
\* to the player is int(t * D / 1000), and when the player reports that same
\* position back through updatePosition, currentPos is still t and no second
\* seek is issued.
C15_ClickSeekIsStable ==
  [][(/\ lastOp.op = "press"
      /\ seeks = 1
      /\ playerDuration > 0)
     => (/\ playerPosition = TruncDiv(currentPos * playerDuration, 1000)
         /\ (lastOp'.op = "updatePosition" /\ lastOp'.x = playerPosition)
            => (currentPos' = currentPos /\ seeks' = 0))]_vars

====
